---- MODULE Spec2Model ----
(***************************************************************************)
(* Hierarchical partition keys on a document store: the load program       *)
(* (load/main.go) that provisions a container keyed by                     *)
(* /tenantId, /userId, /sessionId and upserts generated UserSession        *)
(* records, and the query program that reads them back by full key, by     *)
(* tenant+user and by a single field.                                      *)
(***************************************************************************)
EXTENDS Integers, Sequences, FiniteSets, Bags, TLC

VARIABLES
    lpc,             \* load program: position of main
    rowCount,        \* config.RowCount (the -rows flag)
    client,          \* *azcosmos.Client held by main, "nil" before createCosmosClient
    containerClient, \* *azcosmos.ContainerClient returned by ensureDatabaseAndContainer
    ensureErr,       \* error returned by ensureDatabaseAndContainer ("nil" when none)
    ensureLog,       \* responses the store gave to the calls of the last ensureDatabaseAndContainer
    i,               \* loadSampleData: loop variable i
    successCount,    \* loadSampleData: successCount
    errorCount,      \* loadSampleData: errorCount
    loadErr,         \* error returned by loadSampleData ("nil", "aggregate", or "none" before return)
    attempted,       \* history: number of records generateUserSession produced in this call
    failedRecords,   \* history: number of records whose marshal or upsert failed in this call
    upsertCalls,     \* history: calls of UpsertItem made by this execution
    progress,        \* the record numbers of the progress lines printed by this call
    dbExists,        \* store: the database exists
    containerExists, \* store: the container exists
    store,           \* store: bag of stored documents [key, item]
    runs,            \* number of executions of the load program so far
    upserts,         \* history: successful UpsertItem calls of all executions
    prevEnsured,     \* history: an earlier execution's ensureDatabaseAndContainer returned a handle
    session,         \* generator: the UserSession produced by a call of generateUserSession, << >> before
    container,       \* query program: the package variable container ("nil" or a handle)
    qpc,             \* query program: position of the query function called
    qcall,           \* query program: the call made, << >> before
    qrequest,        \* query program: arguments of the calls of container.NewQueryItemsPager
    qresult,         \* query program: the items the pager serves, in the order it serves them
    qpages,          \* query program: pages the pager has not served yet
    qfetched,        \* query program: pages fetched by NextPage
    qdelivered       \* query program: the QueryResults decoded and printed

lvars == <<lpc, rowCount, client, containerClient, ensureErr, ensureLog, i,
           successCount, errorCount, loadErr, attempted, failedRecords,
           upsertCalls, progress>>
svars == <<dbExists, containerExists, store, runs, upserts, prevEnsured>>
qvars == <<container, qpc, qcall, qrequest, qresult, qpages, qfetched, qdelivered>>
vars == <<lvars, svars, session, qvars>>

----------------------------------------------------------------------------
(* Bounds of the model *)

\* largest value of the -rows flag explored
MaxRows == 2
\* executions of the load program against the same store
MaxRuns == 2
\* distinct values uuid.New() is drawn from
NumUUIDs == 2

----------------------------------------------------------------------------
(* Data of load/main.go *)

\* tenantTypes
tenantTypes ==
    << [name |-> "Global-Corp",     userMin |-> 2000, userMax |-> 10000, sessions |-> 100],
       [name |-> "Enterprise-Corp", userMin |-> 1000, userMax |-> 5000,  sessions |-> 50],
       [name |-> "MidMarket-Inc",   userMin |-> 100,  userMax |-> 500,   sessions |-> 20],
       [name |-> "TechStartup-Co",  userMin |-> 50,   userMax |-> 200,   sessions |-> 30],
       [name |-> "LocalShops-SME",  userMin |-> 10,   userMax |-> 50,    sessions |-> 5] >>

\* activities
activities ==
    << "login", "logout", "view_dashboard", "create_document", "edit_document",
       "delete_document", "upload_file", "download_file", "send_message",
       "view_report", "export_data", "change_settings", "invite_user",
       "join_meeting", "schedule_event" >>

\* rand.Intn(n): every value of [0, n)
RandIntn(n) == 0 .. (n - 1)

\* rand.Intn(n) restricted to the two ends of [0, n)
RandEnds(n) == {0, n - 1}

\* rand.Intn(n) held at its first value: the loader's store is explored
\* over the session ids and record ids, the draws that decide which
\* documents coincide
RandFirst(n) == {0}

\* uuid.New(): a value of a finite pool, so that two draws can coincide
UUIDs == 1 .. NumUUIDs

\* fmt.Sprintf("user-%d", userNum)
UserIDOf(userNum) == <<"user-", userNum>>

\* fmt.Sprintf("session-%s", uuid.New().String()[:8])
SessionIDOf(u) == <<"session-", u>>

\* generateUserSession, with the values its random draws returned:
\* rt = rand.Intn(len(tenantTypes)), ru = rand.Intn(userMax-userMin+1),
\* us = uuid.New() of the session id, ra = rand.Intn(len(activities)),
\* ui = uuid.NewString() of the record id
generateUserSession(rt, ru, us, ra, ui) ==
    LET tenant  == tenantTypes[rt + 1]
        userNum == ru + tenant.userMin
    IN  [ ID        |-> <<"uuid", ui>>,
          TenantID  |-> <<tenant.name>>,
          UserID    |-> UserIDOf(userNum),
          SessionID |-> SessionIDOf(us),
          Activity  |-> activities[ra + 1],
          Timestamp |-> "time.Time" ]

\* the span of user numbers taken as userMax + 1, the minimum not subtracted
UserSpanNoMin(rt) == tenantTypes[rt + 1].userMax + 1

\* the argument of the rand.Intn call that draws userNum, for tenant index rt
UserSpan(rt) == tenantTypes[rt + 1].userMax - tenantTypes[rt + 1].userMin + 1

\* json.Marshal(session): the document with UserSession's json tags; a
\* time.Time is written as a JSON string
Marshal(s) ==
    [ id        |-> s.ID,
      tenantId  |-> s.TenantID,
      userId    |-> s.UserID,
      sessionId |-> s.SessionID,
      activity  |-> s.Activity,
      timestamp |-> [ type |-> "string", value |-> s.Timestamp ] ]

\* PartitionKeyDefinition.Paths of the container, without the leading "/"
PartitionKeyPaths == << "tenantId", "userId", "sessionId" >>

\* the key built with the user before the tenant
PartitionKeyUserFirst(s) == << s.UserID, s.TenantID, s.SessionID >>

\* azcosmos.NewPartitionKeyString(session.TenantID).AppendString(session.UserID).AppendString(session.SessionID)
PartitionKeyOf(s) == << s.TenantID, s.UserID, s.SessionID >>

\* the documents of a store
Docs(st) == BagToSet(st)

\* UpsertItem with no replacement of the existing document (an insert)
InsertItem(st, pk, item) == st (+) SetToBag({[key |-> pk, item |-> item]})

\* containerClient.UpsertItem(ctx, partitionKey, sessionJSON, nil) when it succeeds:
\* the document with this id in this logical partition is replaced, or added
UpsertItem(st, pk, item) ==
    LET others == { d \in Docs(st) : ~(d.key = pk /\ d.item.id = item.id) }
        kept   == [ d \in others |-> st[d] ]
    IN  kept (+) SetToBag({[key |-> pk, item |-> item]})

----------------------------------------------------------------------------
(* Query requests of the query program and what the store answers *)

\* azcosmos.NewPartitionKey(): the empty partition key
EmptyPartitionKey == << >>

\* the full-key request narrowed to tenant and user only
FullKeyRequestNoSession(tenantID, userID, sessionID) ==
    [ key    |-> << tenantID, userID >>,
      params |-> [ tenantId |-> tenantID, userId |-> userID ] ]

\* queryWithFullPartitionKey: the partition key and the WHERE parameters of its pager
FullKeyRequest(tenantID, userID, sessionID) ==
    [ key    |-> << tenantID, userID, sessionID >>,
      params |-> [ tenantId |-> tenantID, userId |-> userID, sessionId |-> sessionID ] ]

\* the tenant+user request scoped to the two-segment prefix of the key
TenantUserRequestPrefix(tenantID, userID) ==
    [ key    |-> << tenantID, userID >>,
      params |-> [ tenantId |-> tenantID, userId |-> userID ] ]

\* queryWithTenantAndUserID: the partition key and the WHERE parameters of its pager
TenantUserRequest(tenantID, userID) ==
    [ key    |-> EmptyPartitionKey,
      params |-> [ tenantId |-> tenantID, userId |-> userID ] ]

\* queryWithSinglePKParameter: "SELECT * FROM c WHERE c.<paramType> = @param"
\* under the empty partition key
SingleRequest(paramType, paramValue) ==
    [ key    |-> EmptyPartitionKey,
      params |-> [ f \in {paramType} |-> paramValue ] ]

\* the parameter check with "activity" let through
ValidParamTypeLax(paramType) ==
    paramType \in {"tenantId", "userId", "sessionId", "activity"}

\* queryWithSinglePKParameter: the check of paramType
ValidParamType(paramType) ==
    ~(paramType # "tenantId" /\ paramType # "userId" /\ paramType # "sessionId")

\* pk is a prefix of the document's partition key (the empty key is a prefix of all)
KeyInScope(pk, docKey) ==
    /\ Len(pk) <= Len(docKey)
    /\ \A k \in 1 .. Len(pk) : pk[k] = docKey[k]

\* the documents a request selects: those in the key's scope whose fields
\* equal every WHERE parameter
QueryItems(st, req) ==
    { d \in Docs(st) :
        /\ KeyInScope(req.key, d.key)
        /\ \A f \in DOMAIN req.params : d.item[f] = req.params[f] }

----------------------------------------------------------------------------
(* Errors returned by the store client *)

NoError   == [isErr |-> FALSE, responseError |-> FALSE, StatusCode |-> 0]
\* *azcore.ResponseError with StatusCode 409: the resource already exists
Conflict  == [isErr |-> TRUE,  responseError |-> TRUE,  StatusCode |-> 409]
\* *azcore.ResponseError with another status
Forbidden == [isErr |-> TRUE,  responseError |-> TRUE,  StatusCode |-> 403]
\* an error that is no *azcore.ResponseError
Transport == [isErr |-> TRUE,  responseError |-> FALSE, StatusCode |-> 0]

\* what CreateDatabase / CreateContainer can answer, given whether the resource exists
CreateResponses(exists) ==
    IF exists THEN {Conflict, Forbidden, Transport}
              ELSE {NoError, Forbidden, Transport}

\* what client.NewDatabase / databaseClient.NewContainer can answer
HandleResponses == {NoError, Transport}

\* the conflict test with the status comparison dropped from the code
IsConflictNever(err) == FALSE

\* errors.As(err, &respErr) && respErr.StatusCode == 409
IsConflict(err) == err.responseError /\ err.StatusCode = 409

\* ensureDatabaseAndContainer, given the answers r1..r4 of CreateDatabase,
\* NewDatabase, CreateContainer, NewContainer: what it returns, the calls it
\* made (log) and which resources it created
EnsureOutcome(r1, r2, r3, r4) ==
    IF r1.isErr /\ ~IsConflict(r1)
    THEN [handle |-> "nil", err |-> "failed to create database",
          log |-> <<r1>>, dbCreated |-> FALSE, containerCreated |-> FALSE]
    ELSE IF r2.isErr
    THEN [handle |-> "nil", err |-> "failed to create database client",
          log |-> <<r1, r2>>, dbCreated |-> ~r1.isErr, containerCreated |-> FALSE]
    ELSE IF r3.isErr /\ ~IsConflict(r3)
    THEN [handle |-> "nil", err |-> "failed to create container",
          log |-> <<r1, r2, r3>>, dbCreated |-> ~r1.isErr, containerCreated |-> FALSE]
    ELSE IF r4.isErr
    THEN [handle |-> "nil", err |-> "failed to create container client",
          log |-> <<r1, r2, r3, r4>>, dbCreated |-> ~r1.isErr,
          containerCreated |-> ~r3.isErr]
    ELSE [handle |-> "containerClient", err |-> "nil",
          log |-> <<r1, r2, r3, r4>>, dbCreated |-> ~r1.isErr,
          containerCreated |-> ~r3.isErr]

----------------------------------------------------------------------------
(* The load program *)

LoadTerminal == {"done", "fatal_endpoint", "fatal_client", "fatal_ensure", "fatal_load"}

\* the exit status of the process at a terminal position: log.Fatal and
\* log.Fatalf exit with 1, the return of main with 0
ExitCode(pc) == IF pc = "done" THEN 0 ELSE 1

\* values of the -rows flag: a negative count runs the loop zero times
RowCounts == (-1) .. MaxRows

\* the state of a process of the load program as it starts
ProcessStart ==
    /\ lpc = "main"
    /\ rowCount = 0
    /\ client = "nil"
    /\ containerClient = "nil"
    /\ ensureErr = "nil"
    /\ ensureLog = <<>>
    /\ i = 0
    /\ successCount = 0
    /\ errorCount = 0
    /\ loadErr = "none"
    /\ attempted = 0
    /\ failedRecords = 0
    /\ upsertCalls = 0
    /\ progress = << >>

\* the query program before a query function is called
QueryIdle ==
    /\ qpc = "idle"
    /\ qcall = << >>
    /\ qrequest = << >>
    /\ qresult = << >>
    /\ qpages = << >>
    /\ qfetched = 0
    /\ qdelivered = << >>

Init ==
    /\ ProcessStart
    /\ dbExists \in BOOLEAN
    /\ containerExists \in BOOLEAN
    /\ containerExists => dbExists
    /\ store = EmptyBag
    /\ runs = 1
    /\ upserts = 0
    /\ prevEnsured = FALSE
    /\ session = <<>>
    /\ QueryIdle
    /\ container = "nil"

\* main, lines 73-102: flags and the endpoint, the -rows flag drawn from counts
MainConfigFrom(counts) ==
    /\ lpc = "main"
    /\ \E endpointURL \in {"", "https://account"}, rows \in counts :
          IF endpointURL = ""
          THEN lpc' = "fatal_endpoint" /\ UNCHANGED rowCount
          ELSE lpc' = "createCosmosClient" /\ rowCount' = rows
    /\ UNCHANGED <<client, containerClient, ensureErr, ensureLog, i, successCount,
                   errorCount, loadErr, attempted, failedRecords, upsertCalls, progress, svars, session, qvars>>

\* main, lines 73-102: flags and the endpoint
MainConfig == MainConfigFrom(RowCounts)

\* createCosmosClient and main's check of its error
CreateCosmosClient ==
    /\ lpc = "createCosmosClient"
    /\ \E outcome \in {"ok", "failed to create credential", "failed to create client"} :
          IF outcome = "ok"
          THEN client' = "client" /\ lpc' = "ensureDatabaseAndContainer"
          ELSE client' = "nil" /\ lpc' = "fatal_client"
    /\ UNCHANGED <<rowCount, containerClient, ensureErr, ensureLog, i, successCount,
                   errorCount, loadErr, attempted, failedRecords, upsertCalls, progress, svars, session, qvars>>

\* main going on to loadSampleData whatever ensureDatabaseAndContainer returned
AfterEnsureUnchecked(err) == "loadSampleData"

\* main, lines 111-113: log.Fatalf when ensureDatabaseAndContainer returned an error
AfterEnsure(err) == IF err # "nil" THEN "fatal_ensure" ELSE "loadSampleData"

\* ensureDatabaseAndContainer and main's check of its error
EnsureDatabaseAndContainer ==
    /\ lpc = "ensureDatabaseAndContainer"
    /\ \E r1 \in CreateResponses(dbExists), r2 \in HandleResponses,
          r3 \in CreateResponses(containerExists), r4 \in HandleResponses :
          LET out == EnsureOutcome(r1, r2, r3, r4) IN
          /\ containerClient' = out.handle
          /\ ensureErr' = out.err
          /\ ensureLog' = out.log
          /\ dbExists' = (dbExists \/ out.dbCreated)
          /\ containerExists' = (containerExists \/ out.containerCreated)
          /\ lpc' = AfterEnsure(out.err)
    /\ UNCHANGED <<rowCount, client, i, successCount, errorCount, loadErr,
                   attempted, failedRecords, upsertCalls, progress, store, runs, upserts, prevEnsured, session, qvars>>

\* the loop of loadSampleData left at the first failed record
AfterRecordAbort(outcome) == IF outcome = "ok" THEN "loadSampleData" ELSE "summary"

\* where loadSampleData goes after a record: `continue` on a failure, the
\* end of the loop body on a success; both are the next iteration
AfterRecord(outcome) == "loadSampleData"

\* records between two progress lines
ProgressEvery == 10

\* loadSampleData, line 254: (i+1)%10 == 0 || i+1 == rowCount, for n = i+1
ProgressDue(n, count) == n % ProgressEvery = 0 \/ n = count

\* one iteration of the loop of loadSampleData, uuid.New drawing from ids
LoadRecordFrom(ids) ==
    /\ lpc = "loadSampleData"
    /\ i < rowCount
    /\ \E rt \in RandFirst(Len(tenantTypes)), us \in ids,
          ra \in RandFirst(Len(activities)), ui \in ids,
          outcome \in {"ok", "marshal error", "upsert error"} :
       \E ru \in RandFirst(UserSpan(rt)) :
          LET s  == generateUserSession(rt, ru, us, ra, ui)
              pk == PartitionKeyOf(s)
          IN  /\ attempted' = attempted + 1
              /\ upsertCalls' = IF outcome = "marshal error" THEN upsertCalls
                                                             ELSE upsertCalls + 1
              /\ IF outcome = "ok"
                 THEN /\ store' = UpsertItem(store, pk, Marshal(s))
                      /\ upserts' = upserts + 1
                      /\ successCount' = successCount + 1
                      /\ progress' = IF ProgressDue(i + 1, rowCount)
                                     THEN Append(progress, i + 1) ELSE progress
                      /\ UNCHANGED <<errorCount, failedRecords>>
                 ELSE /\ errorCount' = errorCount + 1
                      /\ failedRecords' = failedRecords + 1
                      /\ UNCHANGED <<store, upserts, successCount, progress>>
              /\ i' = i + 1
              /\ lpc' = AfterRecord(outcome)
    /\ UNCHANGED <<rowCount, client, containerClient, ensureErr, ensureLog, loadErr,
                   dbExists, containerExists, runs, prevEnsured, session, qvars>>

\* one iteration of the loop of loadSampleData
LoadRecord == LoadRecordFrom(UUIDs)

\* the aggregate error returned only above one failure
LoadResultAboveOne(errors) == IF errors > 1 THEN "aggregate" ELSE "nil"

\* the error loadSampleData returns for the given errorCount
LoadResult(errors) == IF errors > 0 THEN "aggregate" ELSE "nil"

\* loadSampleData after the loop: the summary and the returned error
LoadSummary ==
    /\ \/ lpc = "loadSampleData" /\ ~(i < rowCount)
       \/ lpc = "summary"
    /\ loadErr' = LoadResult(errorCount)
    /\ lpc' = "loaded"
    /\ UNCHANGED <<rowCount, client, containerClient, ensureErr, ensureLog, i,
                   successCount, errorCount, attempted, failedRecords, upsertCalls, progress, svars, session, qvars>>

\* main, lines 117-122: log.Fatalf on the load error, else the success line
MainAfterLoad ==
    /\ lpc = "loaded"
    /\ lpc' = IF loadErr # "nil" THEN "fatal_load" ELSE "done"
    /\ UNCHANGED <<rowCount, client, containerClient, ensureErr, ensureLog, i,
                   successCount, errorCount, loadErr, attempted, failedRecords,
                   upsertCalls, progress, svars, session, qvars>>

\* the load program is run again against the same store
Rerun ==
    /\ lpc \in LoadTerminal
    /\ runs < MaxRuns
    /\ runs' = runs + 1
    /\ prevEnsured' = (prevEnsured \/ containerClient # "nil")
    /\ lpc' = "main"
    /\ rowCount' = 0
    /\ client' = "nil"
    /\ containerClient' = "nil"
    /\ ensureErr' = "nil"
    /\ ensureLog' = <<>>
    /\ i' = 0
    /\ successCount' = 0
    /\ errorCount' = 0
    /\ loadErr' = "none"
    /\ attempted' = 0
    /\ failedRecords' = 0
    /\ upsertCalls' = 0
    /\ progress' = << >>
    /\ UNCHANGED <<dbExists, containerExists, store, upserts, session, qvars>>

Next ==
    \/ MainConfig
    \/ CreateCosmosClient
    \/ EnsureDatabaseAndContainer
    \/ LoadRecord
    \/ LoadSummary
    \/ MainAfterLoad
    \/ Rerun

Spec == Init /\ [][Next]_vars

----------------------------------------------------------------------------
(* The session generator on its own *)

GenInit ==
    /\ Init
    /\ dbExists = FALSE

\* one call of generateUserSession, over every tenant and every user number
Generate ==
    /\ session = << >>
    /\ \E rt \in RandIntn(Len(tenantTypes)), us \in UUIDs,
          ra \in RandEnds(Len(activities)), ui \in UUIDs :
       \E ru \in RandIntn(UserSpan(rt)) :
          session' = << generateUserSession(rt, ru, us, ra, ui) >>
    /\ UNCHANGED <<lvars, svars, qvars>>

\* the caller drops the session
GenerateReturn ==
    /\ session # << >>
    /\ session' = << >>
    /\ UNCHANGED <<lvars, svars, qvars>>

GenNext == Generate \/ GenerateReturn

SpecGen == GenInit /\ [][GenNext]_vars

----------------------------------------------------------------------------
(* The query functions *)

\* items per page the store serves
PageSize == 2
\* documents in the container when the query program runs
MaxStoreDocs == 3

\* a document as the loader stores it
StoredDoc(s) == [ key |-> PartitionKeyOf(s), item |-> Marshal(s) ]

\* the same document with a timestamp that is no JSON string, as another
\* writer may have stored it
ForeignDoc(s) ==
    [ key  |-> PartitionKeyOf(s),
      item |-> [ Marshal(s) EXCEPT !.timestamp = [ type |-> "number", value |-> "0" ] ] ]

\* documents the container may hold when the query program runs
QueryDocs ==
    UNION { { StoredDoc(generateUserSession(rt, 0, 1, 0, ui)),
              ForeignDoc(generateUserSession(rt, 0, 1, 0, ui)) } :
            rt \in RandEnds(Len(tenantTypes)), ui \in 1 .. MaxStoreDocs }

\* the container holds one document for a partition key and id
OnePerKeyAndId(S) ==
    \A d \in S : \A e \in S : (d.key = e.key /\ d.item.id = e.item.id) => d = e

\* values the callers pass for a tenant, a user, a session and any field
TenantArgs  == { << tenantTypes[k].name >> : k \in {3, 5} }
UserArgs    == { UserIDOf(tenantTypes[5].userMin), UserIDOf(42) }
SessionArgs == { SessionIDOf(1) }
ParamTypes  == { "tenantId", "userId", "sessionId", "activity", "id" }
ParamValues == { << tenantTypes[5].name >>, UserIDOf(tenantTypes[5].userMin), SessionIDOf(1) }

RECURSIVE Orders(_)
\* the orders in which the store may serve a set of documents
Orders(S) ==
    IF S = {} THEN { << >> }
    ELSE UNION { { << d >> \o rest : rest \in Orders(S \ {d}) } : d \in S }

RECURSIVE Pages(_)
\* a result cut into pages of PageSize items; an empty result is one empty page
Pages(items) ==
    IF Len(items) <= PageSize THEN << items >>
    ELSE << SubSeq(items, 1, PageSize) >> \o Pages(SubSeq(items, PageSize + 1, Len(items)))

\* json.Unmarshal(_item, &queryResult) fails: a field of QueryResult has
\* another JSON type than its Go type (Timestamp is a string)
UnmarshalFails(item) == item.timestamp.type # "string"

\* json.Unmarshal(_item, &queryResult)
Unmarshal(item) ==
    [ ID        |-> item.id,
      TenantId  |-> item.tenantId,
      UserId    |-> item.userId,
      SessionId |-> item.sessionId,
      Activity  |-> item.activity,
      Timestamp |-> item.timestamp.value ]

\* index of the first item of a page that does not decode, 0 when all do
FirstBad(items) ==
    IF \E k \in 1 .. Len(items) : UnmarshalFails(items[k].item)
    THEN CHOOSE k \in 1 .. Len(items) :
            /\ UnmarshalFails(items[k].item)
            /\ \A j \in 1 .. (k - 1) : ~UnmarshalFails(items[j].item)
    ELSE 0

\* the decoded records of items[1..n]
DecodeUpTo(items, n) == [ k \in 1 .. n |-> Unmarshal(items[k].item) ]

\* the decoding loop skipping an item that does not decode
DecodePageSkipping(items) ==
    [ printed |-> LET good == SelectSeq(items, LAMBDA d : ~UnmarshalFails(d.item))
                  IN  DecodeUpTo(good, Len(good)),
      fatal   |-> FALSE ]

\* the loop over page.Items: each item is decoded and printed, and the first
\* that does not decode ends the process with log.Fatal
DecodePage(items) ==
    IF FirstBad(items) = 0
    THEN [ printed |-> DecodeUpTo(items, Len(items)), fatal |-> FALSE ]
    ELSE [ printed |-> DecodeUpTo(items, FirstBad(items) - 1), fatal |-> TRUE ]

QueryInit ==
    /\ ProcessStart
    /\ dbExists = TRUE
    /\ containerExists = TRUE
    /\ runs = 1
    /\ upserts = 0
    /\ prevEnsured = FALSE
    /\ session = << >>
    /\ QueryIdle
    /\ container \in {"nil", "containerClient"}
    /\ \E S \in SUBSET QueryDocs :
          /\ Cardinality(S) <= MaxStoreDocs
          /\ OnePerKeyAndId(S)
          /\ store = SetToBag(S)

\* container.NewQueryItemsPager(query, key, options) and the first test of
\* pager.More(): on the nil handle the call panics; on a handle the pager
\* serves the selected documents in some order
NewQueryItemsPager(req) ==
    /\ qrequest' = << req >>
    /\ IF container = "nil"
       THEN /\ qpc' = "panic_nil"
            /\ UNCHANGED <<qresult, qpages>>
       ELSE /\ qpc' = "pager"
            /\ \E order \in Orders(QueryItems(store, req)) :
                  /\ qresult' = order
                  /\ qpages' = Pages(order)

\* queryWithFullPartitionKey up to the loop over the pages
QueryWithFullPartitionKey ==
    /\ qpc = "idle"
    /\ \E t \in TenantArgs, u \in UserArgs, ss \in SessionArgs :
          /\ qcall' = << [ fn |-> "queryWithFullPartitionKey", args |-> << t, u, ss >> ] >>
          /\ NewQueryItemsPager(FullKeyRequest(t, u, ss))
    /\ UNCHANGED <<lvars, svars, session, container, qfetched, qdelivered>>

\* queryWithTenantAndUserID up to the loop over the pages
QueryWithTenantAndUserID ==
    /\ qpc = "idle"
    /\ \E t \in TenantArgs, u \in UserArgs :
          /\ qcall' = << [ fn |-> "queryWithTenantAndUserID", args |-> << t, u >> ] >>
          /\ NewQueryItemsPager(TenantUserRequest(t, u))
    /\ UNCHANGED <<lvars, svars, session, container, qfetched, qdelivered>>

\* queryWithSinglePKParameter up to the loop over the pages
QueryWithSinglePKParameter ==
    /\ qpc = "idle"
    /\ \E paramType \in ParamTypes, paramValue \in ParamValues :
          /\ qcall' = << [ fn |-> "queryWithSinglePKParameter",
                           args |-> << paramType, paramValue >> ] >>
          /\ IF ~ValidParamType(paramType)
             THEN /\ qpc' = "fatal_param"
                  /\ UNCHANGED <<qrequest, qresult, qpages>>
             ELSE NewQueryItemsPager(SingleRequest(paramType, paramValue))
    /\ UNCHANGED <<lvars, svars, session, container, qfetched, qdelivered>>

\* one turn of `for pager.More()`: NextPage, then the loop over page.Items
NextPage ==
    /\ qpc = "pager"
    /\ qpages # << >>
    /\ \E err \in BOOLEAN :
          IF err
          THEN /\ qpc' = "fatal_page"
               /\ UNCHANGED <<qpages, qfetched, qdelivered>>
          ELSE LET out == DecodePage(Head(qpages)) IN
               /\ qfetched' = qfetched + 1
               /\ qdelivered' = qdelivered \o out.printed
               /\ qpages' = Tail(qpages)
               /\ qpc' = IF out.fatal THEN "fatal_decode" ELSE "pager"
    /\ UNCHANGED <<lvars, svars, session, container, qcall, qrequest, qresult>>

\* pager.More() is false: the query function returns
QueryReturn ==
    /\ qpc = "pager"
    /\ qpages = << >>
    /\ qpc' = "returned"
    /\ UNCHANGED <<lvars, svars, session, container, qcall, qrequest, qresult,
                   qpages, qfetched, qdelivered>>

QueryNext ==
    \/ QueryWithFullPartitionKey
    \/ QueryWithTenantAndUserID
    \/ QueryWithSinglePKParameter
    \/ NextPage
    \/ QueryReturn

SpecQuery == QueryInit /\ [][QueryNext]_vars

----------------------------------------------------------------------------
(* Properties of the load program *)

\* the positions of main after the return of loadSampleData
ReturnedPositions == {"loaded", "done", "fatal_load"}

\* loadSampleData has returned in this execution
LoadReturned == lpc \in ReturnedPositions

\* the sessions the loop of loadSampleData draws from
LoadSessions ==
    UNION { { generateUserSession(rt, ru, us, ra, ui) :
                ru \in RandFirst(UserSpan(rt)), us \in UUIDs,
                ra \in RandFirst(Len(activities)), ui \in UUIDs } :
            rt \in RandFirst(Len(tenantTypes)) }

\* number of stored copies of the documents with partition key pk and id
CopiesOf(st, pk, id) ==
    LET same == { d \in Docs(st) : d.key = pk /\ d.item.id = id }
    IN  BagCardinality([ d \in same |-> st[d] ])

\* C1: when loadSampleData(count), count >= 0, has returned with k records
\* failed, errorCount = k, successCount = count - k, and the returned error
\* is the aggregate error exactly when k > 0 and nil exactly when k = 0.
C1_Counts ==
    (LoadReturned /\ rowCount >= 0) =>
        /\ errorCount = failedRecords
        /\ successCount = rowCount - failedRecords
        /\ (loadErr = "aggregate") <=> (failedRecords > 0)
        /\ (loadErr = "nil") <=> (failedRecords = 0)

C1_Witness ==
    /\ lpc = "fatal_load"
    /\ rowCount = 2
    /\ failedRecords = 1
    /\ successCount = 1

\* C2: a failed record never stops the batch: while the loop runs every
\* record up to i has been generated, and when the loop is left exactly
\* count records (none for count < 0) have been attempted.
C2_NoEarlyAbort ==
    /\ (lpc = "loadSampleData") => (attempted = i /\ (i <= rowCount \/ rowCount < 0))
    /\ (lpc = "summary" \/ LoadReturned) =>
           attempted = (IF rowCount > 0 THEN rowCount ELSE 0)

C2_Witness ==
    /\ lpc = "loaded"
    /\ rowCount = 2
    /\ failedRecords = 2
    /\ attempted = 2

SameTriple(st, d) ==
    QueryItems(st, FullKeyRequest(d.item.tenantId, d.item.userId, d.item.sessionId))

\* C7 as claimed: a full partition key query with the triple of a stored
\* record returns exactly that record and no others.
C7_TripleUnique ==
    \A d \in Docs(store) : SameTriple(store, d) = {d}

\* C7 amended: a full partition key query with the triple of a stored record
\* returns that record and only records stored under the same three-segment
\* key; among them the id tells the records apart.
C7_TripleAndId ==
    \A d \in Docs(store) :
        /\ d \in SameTriple(store, d)
        /\ \A e \in SameTriple(store, d) :
              /\ e.key = d.key
              /\ e.item.tenantId = d.item.tenantId
              /\ e.item.userId = d.item.userId
              /\ e.item.sessionId = d.item.sessionId
              /\ (e.item.id = d.item.id => e = d)

\* two stored records of different ids under one triple
C7_Witness ==
    \E d \in Docs(store) : \E e \in SameTriple(store, d) : e.item.id # d.item.id

\* C8: every stored document is keyed by its own fields in the order of the
\* container's key paths: three segments, segment k equal to the field at
\* path k.
C8_FullKeyInOrder ==
    \A d \in Docs(store) :
        /\ Len(d.key) = Len(PartitionKeyPaths)
        /\ \A k \in 1 .. Len(PartitionKeyPaths) : d.key[k] = d.item[PartitionKeyPaths[k]]

\* two documents stored under different three-segment keys
C8_Witness ==
    \E d \in Docs(store) : \E e \in Docs(store) :
        /\ Len(d.key) = 3
        /\ d.key[3] # e.key[3]

\* an answer that is an error other than the 409 conflict
NonConflictError(r) == r.isErr /\ r # Conflict

\* C10: ensureDatabaseAndContainer returns a handle and no error, or no
\* handle and an error; it returns a handle exactly when none of the store's
\* answers was an error other than a 409 conflict (a conflict on either
\* create is passed over, all four calls are made), and it fails at the
\* first other error. This also holds of a call after a successful one.
C10_EnsureIdempotent ==
    (ensureLog # << >>) =>
        /\ (containerClient # "nil") <=> (ensureErr = "nil")
        /\ (containerClient # "nil") <=>
               (Len(ensureLog) = 4 /\ \A k \in 1 .. 4 : ~NonConflictError(ensureLog[k]))
        /\ (containerClient = "nil") =>
               /\ NonConflictError(ensureLog[Len(ensureLog)])
               /\ \A k \in 1 .. (Len(ensureLog) - 1) : ~NonConflictError(ensureLog[k])

\* a second call, after a successful one, answered by two conflicts
C10_Witness ==
    /\ prevEnsured
    /\ Len(ensureLog) = 4
    /\ ensureLog[1] = Conflict
    /\ ensureLog[3] = Conflict
    /\ containerClient = "containerClient"

----------------------------------------------------------------------------
(* Properties of the session generator *)

\* C9: the tenantId of a generated session is a catalog name, and its userId
\* is "user-<n>" with userMin <= n <= userMax of the tenant of that name.
C9_UserInTenantRange ==
    (session # << >>) =>
        \E k \in 1 .. Len(tenantTypes) :
            /\ session[1].TenantID = << tenantTypes[k].name >>
            /\ session[1].UserID[1] = "user-"
            /\ tenantTypes[k].userMin <= session[1].UserID[2]
            /\ session[1].UserID[2] <= tenantTypes[k].userMax

\* the upper bound is produced
C9_Witness ==
    /\ session # << >>
    /\ session[1].TenantID = << tenantTypes[1].name >>
    /\ session[1].UserID = << "user-", tenantTypes[1].userMax >>

----------------------------------------------------------------------------
(* Properties of the query functions *)

\* the query function named fn has been called
Called(fn) == qcall # << >> /\ qcall[1].fn = fn

\* a pager was created: the position is in or after the loop over the pages
PagerCreated == qpc \in {"pager", "returned", "fatal_page", "fatal_decode"}

\* C4: queryWithSinglePKParameter with a field name outside {tenantId,
\* userId, sessionId} ends as an invalid request with no call of
\* NewQueryItemsPager and no page fetched; with a field name inside the set
\* it is not rejected: it calls NewQueryItemsPager with the filter on that
\* field under the empty key, and on a usable handle the pager is created.
C4_InvalidFieldRejected ==
    Called("queryWithSinglePKParameter") =>
        LET paramType  == qcall[1].args[1]
            paramValue == qcall[1].args[2]
        IN  IF paramType \in {"tenantId", "userId", "sessionId"}
            THEN /\ qpc # "fatal_param"
                 /\ qrequest = << SingleRequest(paramType, paramValue) >>
                 /\ (container # "nil") => PagerCreated
            ELSE /\ qpc = "fatal_param"
                 /\ qrequest = << >>
                 /\ qfetched = 0
                 /\ qdelivered = << >>
                 /\ ~PagerCreated

\* "activity" is rejected while the container holds documents
C4_Witness ==
    /\ Called("queryWithSinglePKParameter")
    /\ qcall[1].args[1] = "activity"
    /\ qpc = "fatal_param"
    /\ container = "containerClient"
    /\ BagCardinality(store) > 0

\* C5 as claimed: the tenant+user query passes the two-segment prefix
\* <<tenant, user>> as the key scope of its query.
C5_PrefixScope ==
    (Called("queryWithTenantAndUserID") /\ PagerCreated) =>
        qrequest[1].key = << qcall[1].args[1], qcall[1].args[2] >>

\* C5 amended: the tenant+user query passes the empty partition key, the key
\* scope of the single-field query, and narrows the result to the tenant and
\* the user by its two WHERE parameters only.
C5_EmptyKeyScope ==
    Called("queryWithTenantAndUserID") =>
        /\ qrequest[1].key = EmptyPartitionKey
        /\ qrequest[1].key = SingleRequest("tenantId", qcall[1].args[1]).key
        /\ qrequest[1].params =
               [ tenantId |-> qcall[1].args[1], userId |-> qcall[1].args[2] ]
        /\ PagerCreated =>
               \A k \in 1 .. Len(qresult) :
                   /\ qresult[k].item.tenantId = qcall[1].args[1]
                   /\ qresult[k].item.userId = qcall[1].args[2]

\* the tenant+user query has served documents of two ids
C5_Witness ==
    /\ Called("queryWithTenantAndUserID")
    /\ qpc = "returned"
    /\ Len(qdelivered) >= 2

\* the items of the result that decode, decoded, in the order served
Decodable(items) ==
    LET good == SelectSeq(items, LAMBDA d : ~UnmarshalFails(d.item))
    IN  DecodeUpTo(good, Len(good))

\* C6 as claimed: a query that ended without a page error has delivered
\* every record of its result that decodes, whether or not another record
\* failed to decode.
C6_DecodeFailureTolerated ==
    (qpc \in {"returned", "fatal_decode"}) => qdelivered = Decodable(qresult)

\* C6 amended: in every query pattern the first record that fails to decode
\* ends the process: the records served before it have been delivered, and
\* no record after it, of the same page or of a later page, is decoded; a
\* query returns only when every record of its result decoded.
C6_DecodeFailureFatal ==
    /\ (qpc = "fatal_decode") =>
           /\ FirstBad(qresult) > 0
           /\ qdelivered = DecodeUpTo(qresult, FirstBad(qresult) - 1)
    /\ (qpc = "returned") =>
           /\ FirstBad(qresult) = 0
           /\ qdelivered = DecodeUpTo(qresult, Len(qresult))
    /\ (qpc = "pager" /\ FirstBad(qresult) > 0) => Len(qdelivered) < FirstBad(qresult)

\* a full-key query stopped at a record with decodable records after it,
\* in the same page and in a later page
C6_Witness ==
    /\ Called("queryWithFullPartitionKey")
    /\ qpc = "fatal_decode"
    /\ Len(qresult) = 3
    /\ FirstBad(qresult) = 1
    /\ ~UnmarshalFails(qresult[2].item)
    /\ ~UnmarshalFails(qresult[3].item)

----------------------------------------------------------------------------
(* Setup failures of the load program *)

\* createCosmosClient or ensureDatabaseAndContainer returned an error in
\* this execution
SetupFailed == lpc = "fatal_client" \/ ensureErr # "nil"

\* C11: in an execution whose setup failed (credential, client, or a
\* provisioning error that is no conflict) the process has ended with a
\* non-zero status at that failure, no record was generated and no upsert
\* was issued.
C11_SetupFailureFatal ==
    SetupFailed =>
        /\ lpc \in {"fatal_client", "fatal_ensure"}
        /\ ExitCode(lpc) # 0
        /\ attempted = 0
        /\ upsertCalls = 0
        /\ i = 0
        /\ progress = << >>
        /\ containerClient = "nil"

\* the container could not be created in a second execution, after a first
\* one had stored a document
C11_Witness ==
    /\ lpc = "fatal_ensure"
    /\ ensureErr = "failed to create container"
    /\ runs = 2
    /\ upserts > 0
    /\ upsertCalls = 0

----------------------------------------------------------------------------
(* The progress lines of loadSampleData: one execution of the load program
   with row counts up to and past the cadence of ten, every record drawing
   the same uuid *)

MaxProgressRows == 11

\* values of the -rows flag that reach the tenth record and one past it
ProgressRowCounts == 0 .. MaxProgressRows

\* main with the -rows flag drawn from ProgressRowCounts
MainConfigProgress == MainConfigFrom(ProgressRowCounts)

\* one iteration of the loop, uuid.New returning the first uuid
LoadRecordOneId == LoadRecordFrom({1})

ProgressNext ==
    \/ MainConfigProgress
    \/ CreateCosmosClient
    \/ EnsureDatabaseAndContainer
    \/ LoadRecordOneId
    \/ LoadSummary
    \/ MainAfterLoad

SpecProgress == Init /\ [][ProgressNext]_vars

\* the record numbers 1..n after which a progress line is due, in order
RECURSIVE Cadence(_, _)
Cadence(n, count) ==
    IF n = 0 THEN << >>
    ELSE IF n % ProgressEvery = 0 \/ n = count
         THEN Append(Cadence(n - 1, count), n)
         ELSE Cadence(n - 1, count)

\* C13: whatever records succeeded or failed, loadSampleData(count) has
\* printed a progress line after every 10th record and after the last one:
\* after record i the lines printed are those of the cadence up to i.
C13_ProgressCadence ==
    (lpc \in {"loadSampleData", "summary"} \cup ReturnedPositions) =>
        progress = Cadence(i, rowCount)

----------------------------------------------------------------------------
(* The query program from its start: init, then main up to its first query.
   main calls its query functions one after the other, so a later call is
   made only when the first has returned *)

\* the process before init: the package variable container holds its zero value
QueryProgramStart ==
    /\ ProcessStart
    /\ dbExists = TRUE
    /\ containerExists = TRUE
    /\ runs = 1
    /\ upserts = 0
    /\ prevEnsured = FALSE
    /\ session = << >>
    /\ container = "nil"
    /\ qpc = "init"
    /\ qcall = << >>
    /\ qrequest = << >>
    /\ qresult = << >>
    /\ qpages = << >>
    /\ qfetched = 0
    /\ qdelivered = << >>
    /\ \E S \in SUBSET QueryDocs :
          /\ Cardinality(S) <= MaxStoreDocs
          /\ OnePerKeyAndId(S)
          /\ store = SetToBag(S)

\* values of an environment variable: unset or set
EnvValues == {"", "set"}

\* init: the three environment variables, then getClient, whose client is
\* discarded (`_, err := getClient(endpoint)`); container is not assigned
QueryProgramInit ==
    /\ qpc = "init"
    /\ \E endpoint \in EnvValues, dbName \in EnvValues, containerName \in EnvValues,
          err \in {"nil", "credential error", "client error"} :
          qpc' = IF endpoint = "" \/ dbName = "" \/ containerName = ""
                 THEN "fatal_env"
                 ELSE IF err # "nil" THEN "fatal_getClient" ELSE "idle"
    /\ UNCHANGED <<lvars, svars, session, container, qcall, qrequest, qresult,
                   qpages, qfetched, qdelivered>>

\* the arguments of main's first call, queryWithFullPartitionKey("MidMarket-Inc",
\* "user-192", "session-5af6ab47"), the session being that of the first uuid
MainFirstArgs == << << tenantTypes[3].name >>, UserIDOf(192), SessionIDOf(1) >>

\* main, lines 48-52: the call of queryWithFullPartitionKey up to its pager
MainFirstQuery ==
    /\ qpc = "idle"
    /\ qcall' = << [ fn |-> "queryWithFullPartitionKey", args |-> MainFirstArgs ] >>
    /\ NewQueryItemsPager(FullKeyRequest(MainFirstArgs[1], MainFirstArgs[2],
                                         MainFirstArgs[3]))
    /\ UNCHANGED <<lvars, svars, session, container, qfetched, qdelivered>>

QueryProgramNext ==
    \/ QueryProgramInit
    \/ MainFirstQuery

SpecQueryProgram == QueryProgramStart /\ [][QueryProgramNext]_vars

\* init has returned and main runs or has run
MainEntered == qpc \notin {"init", "fatal_env", "fatal_getClient"}

\* C12: once init has returned, so when main issues its first query and at
\* every later query and at the point read, the package variable container
\* holds a container client and not nil.
C12_HandleInitialised == MainEntered => container # "nil"

====
